---------------------------- MODULE Spec2Model ----------------------------
(***************************************************************************)
(* The session / attendance core of server.js: the Session and Attendance  *)
(* collections, the teacher's start-session and end-session handlers, the  *)
(* student's mark-attendance and attendance-history handlers, and the      *)
(* attendance_marked events the server emits.                              *)
(*                                                                         *)
(* A handler is one async function, and an `await` of a store call is a    *)
(* point where other requests run.  mark-attendance is one action per      *)
(* store call (session lookup, existence lookup, save), so that requests   *)
(* interleave between them.  start-session and end-session make a single   *)
(* store call and are one action each.  attendance-history only reads; its *)
(* finds are one action that reads the store as it is at that moment.      *)
(* A request is taken up at its first store call: the auth middleware has  *)
(* resolved req.user by then, and no handler looks at the user's role, so  *)
(* every user may call every route.  Of a response the model keeps the     *)
(* status, the error message and, for attendance-history, the history.     *)
(*                                                                         *)
(* Spec and SpecSeq follow the requests of users while the store and the   *)
(* emit work.  The other specifications widen one side each: SpecListing   *)
(* adds the session-attendance listing, SpecFaulty lets store calls and    *)
(* the emit fail, SpecAuth sends requests with any token through the auth  *)
(* middleware, SpecRealtime lets connections open, join rooms and close.   *)
(***************************************************************************)
EXTENDS Integers, Sequences, FiniteSets, Bags, TLC

\* ---------------------------------------------------------------- bounds
MaxSessions == 2      \* Session documents ever created
MaxRecords  == 2      \* Attendance documents ever created
MaxTime     == 1      \* the clock runs 0..MaxTime
MaxPending  == 2      \* requests in flight at once

Users    == {"t1", "s1"}                \* _id of the User documents
role     == [u \in Users |-> IF u = "t1" THEN "teacher" ELSE "student"]   \* their role
Codes    == {"AB12CD", "EF34AB"}        \* values uuidv4().substring(0, 6).toUpperCase() takes
Subjects == {"math"}                    \* req.body.subject
Locs     == {"gate"}                    \* req.body.{latitude, longitude}
Sockets  == {"k1", "k2"}                \* socket.id of the connections clients open

\* the Authorization headers requests carry: none, a token jwt.verify refuses, and
\* tokens signed by the server for the _id of a user and of a user that does not exist
Tokens ==
    {[present |-> FALSE, valid |-> FALSE, _id |-> ""],
     [present |-> TRUE,  valid |-> FALSE, _id |-> "t1"],
     [present |-> TRUE,  valid |-> TRUE,  _id |-> "t1"],
     [present |-> TRUE,  valid |-> TRUE,  _id |-> "s1"],
     [present |-> TRUE,  valid |-> TRUE,  _id |-> "x9"]}

\* endTime of a session that has none (SessionSchema: endTime has no default)
NoTime == -1

VARIABLES
    Session,      \* the Session collection, in insertion order
    Attendance,   \* the Attendance collection, in insertion order
    emitted,      \* the events io.to(room).emit was called with, in order, each with
                  \* the connections it was sent to
    now,          \* the clock Date.now / new Date() reads
    pending,      \* the handlers suspended at an await, each with its locals (a bag)
    res,          \* the response sent most recently
    sockets       \* of each socket.id: whether its connection is open, and socket.rooms

vars == <<Session, Attendance, emitted, now, pending, res, sockets>>

\* -------------------------------------------------------------- documents
\* new Session({sessionId, teacherId, subject, location}) with the schema's defaults
NewSession(code, teacher, subject, loc) ==
    [sessionId |-> code, teacherId |-> teacher, subject |-> subject,
     location |-> loc, startTime |-> now, endTime |-> NoTime, active |-> TRUE]

\* new Attendance({sessionId, studentId, location, ...}) with the schema's default
NewAttendance(code, student, loc) ==
    [sessionId |-> code, studentId |-> student, location |-> loc, timestamp |-> now]

\* ------------------------------------------------- handlers and responses
\* a handler suspended at the await named by pc, with req.user, req.body and locals
Handler(op, u, code, loc, pc) ==
    [op |-> op, user |-> u, code |-> code, location |-> loc, pc |-> pc,
     sessions |-> <<>>, attendance |-> <<>>]

\* the server takes up another request
Admit == BagCardinality(pending) < MaxPending

\* handler h suspends at its next await as h2
Suspend(h, h2) == pending' = (pending (-) SetToBag({h})) (+) SetToBag({h2})

\* no response sent yet
NoResponse ==
    [op |-> "none", user |-> "", code |-> "", status |-> 0, error |-> "",
     history |-> <<>>, attendance |-> <<>>]

\* the response to the request (op, user, code): its status and, of the body, the
\* error message; an attendance-history response also carries the history, a
\* session-attendance response the documents listed
Response(op, u, code, status, error) ==
    [NoResponse EXCEPT !.op = op, !.user = u, !.code = code,
                       !.status = status, !.error = error]

\* mutant: auth without `if (!user) throw new Error()`
authDecoded(token) ==
    IF ~token.present THEN {}
    ELSE IF ~token.valid THEN {}
    ELSE {token._id}

\* the auth middleware: req.user as it calls next() with ({}: it answers 401).
\* Without the header req.header(...) is undefined and .replace throws; jwt.verify
\* throws on a token it refuses; no user with the decoded _id throws
auth(token) ==
    IF ~token.present THEN {}
    ELSE IF ~token.valid THEN {}
    ELSE {u \in Users : u = token._id}

Init ==
    /\ Session = <<>>
    /\ Attendance = <<>>
    /\ emitted = <<>>
    /\ now = 0
    /\ pending = EmptyBag
    /\ res = NoResponse
    /\ sockets = [k \in Sockets |-> [state |-> "new", rooms |-> {}]]

\* time passes
Tick ==
    /\ now < MaxTime
    /\ now' = now + 1
    /\ UNCHANGED <<Session, Attendance, emitted, pending, res, sockets>>

\* ------------------------------------------------- POST /api/teacher/start-session
StartSession(u, subject, loc) ==
    /\ Admit
    /\ Len(Session) < MaxSessions
    /\ \E sessionId \in Codes :
         /\ Session' = Append(Session, NewSession(sessionId, u, subject, loc))
         /\ res' = Response("start", u, sessionId, 201, "")
    /\ UNCHANGED <<Attendance, emitted, now, pending, sockets>>

\* ---------------------------------------------------- POST /api/teacher/end-session
\* mutant: the filter without active: true
EndFilterAnyState(code, teacher) ==
    {i \in DOMAIN Session : /\ Session[i].sessionId = code
                            /\ Session[i].teacherId = teacher}

\* mutant: the filter without teacherId
EndFilterAnyOwner(code, teacher) ==
    {i \in DOMAIN Session : Session[i].sessionId = code /\ Session[i].active}

\* the documents the filter {sessionId, teacherId, active: true} matches
EndFilter(code, teacher) ==
    {i \in DOMAIN Session : /\ Session[i].sessionId = code
                            /\ Session[i].teacherId = teacher
                            /\ Session[i].active}

\* mutant: the update without active: false
EndUpdateEndTimeOnly(session) == [session EXCEPT !.endTime = now]

\* the update {active: false, endTime: new Date()} applied to one document
EndUpdate(session) == [session EXCEPT !.active = FALSE, !.endTime = now]

\* Session.findOneAndUpdate is one atomic store operation on one matching document
EndSession(u, code) ==
    /\ Admit
    /\ IF EndFilter(code, u) = {}
       THEN /\ res' = Response("end", u, code, 404, "Session not found")
            /\ UNCHANGED Session
       ELSE \E i \in EndFilter(code, u) :
              /\ Session' = [Session EXCEPT ![i] = EndUpdate(Session[i])]
              /\ res' = Response("end", u, code, 200, "")
    /\ UNCHANGED <<Attendance, emitted, now, pending, sockets>>

\* ------------------------------------------------ POST /api/student/mark-attendance
\* mutant: the filter without active: true
ActiveFilterAnyState(code) ==
    {i \in DOMAIN Session : Session[i].sessionId = code}

\* the documents the filter {sessionId, active: true} matches
ActiveFilter(code) ==
    {i \in DOMAIN Session : Session[i].sessionId = code /\ Session[i].active}

\* mutant: the filter compares studentId with the session code, so it matches nothing
AlreadyFilterWrongKey(code, student) ==
    {i \in DOMAIN Attendance : /\ Attendance[i].sessionId = code
                               /\ Attendance[i].studentId = code}

\* the documents the filter {sessionId, studentId} matches
AlreadyFilter(code, student) ==
    {i \in DOMAIN Attendance : /\ Attendance[i].sessionId = code
                               /\ Attendance[i].studentId = student}

\* the Attendance documents the handlers in flight may still insert
Inserting ==
    LET marks == {h \in BagToSet(pending) : h.op = "mark"} IN
    BagCardinality([h \in marks |-> CopiesIn(h, pending)])

\* const session = await Session.findOne({sessionId, active: true})
MarkFindSession(u, code, loc) ==
    /\ Admit
    /\ Len(Attendance) + Inserting < MaxRecords
    /\ IF ActiveFilter(code) = {}
       THEN /\ res' = Response("mark", u, code, 404, "Session not active")
            /\ UNCHANGED pending
       ELSE \E i \in ActiveFilter(code) :
              /\ pending' = pending (+) SetToBag({[Handler("mark", u, code, loc, "findAlready")
                                                     EXCEPT !.sessions = <<Session[i]>>]})
              /\ UNCHANGED res
    /\ UNCHANGED <<Session, Attendance, emitted, now, sockets>>

\* const already = await Attendance.findOne({sessionId, studentId}); new Attendance({...})
MarkFindAlready(h) ==
    /\ h.op = "mark" /\ h.pc = "findAlready"
    /\ IF AlreadyFilter(h.code, h.user) # {}
       THEN /\ res' = Response("mark", h.user, h.code, 400, "Already marked")
            /\ pending' = pending (-) SetToBag({h})
       ELSE /\ Suspend(h, [h EXCEPT !.pc = "save",
                                    !.attendance = <<NewAttendance(h.code, h.user, h.location)>>])
            /\ UNCHANGED res
    /\ UNCHANGED <<Session, Attendance, emitted, now, sockets>>

\* mutant: io.emit, to every open connection
BroadcastAll(room) ==
    SetToBag({k \in Sockets : sockets[k].state = "open"})

\* io.to(room).emit: the adapter sends the packet once to each socket id in the room
\* (the copies each connection is sent, as a bag)
Broadcast(room) ==
    SetToBag({k \in Sockets : sockets[k].state = "open" /\ room \in sockets[k].rooms})

\* mutant: save as an upsert on {sessionId, studentId}, replacing a stored document
SaveAttendanceUpsert(doc) ==
    LET same == {k \in DOMAIN Attendance : /\ Attendance[k].sessionId = doc.sessionId
                                           /\ Attendance[k].studentId = doc.studentId}
    IN  IF same = {} THEN Append(Attendance, doc)
        ELSE [k \in DOMAIN Attendance |-> IF k \in same THEN doc ELSE Attendance[k]]

\* the Attendance collection after attendance.save() has inserted the new document
SaveAttendance(doc) == Append(Attendance, doc)

\* mutant: the event goes to the room named by the student, not by the session code
EmitToStudentRoom(room, doc, to) ==
    Append(emitted, [room |-> doc.studentId, event |-> "attendance_marked",
                     payload |-> doc, to |-> to])

\* io.to(room).emit('attendance_marked', doc), sent to the connections in `to`
Emit(room, doc, to) ==
    Append(emitted, [room |-> room, event |-> "attendance_marked",
                     payload |-> doc, to |-> to])

\* await attendance.save(); io.to(sessionId).emit('attendance_marked', attendance); 201
MarkSave(h) ==
    /\ h.op = "mark" /\ h.pc = "save"
    /\ Attendance' = SaveAttendance(h.attendance[1])
    /\ emitted' = Emit(h.code, h.attendance[1], Broadcast(h.code))
    /\ res' = Response("mark", h.user, h.code, 201, "")
    /\ pending' = pending (-) SetToBag({h})
    /\ UNCHANGED <<Session, now, sockets>>

\* ---------------------------------------------- GET /api/student/attendance-history
\* the orders in which find({active: false}).sort({startTime: -1}) may return the
\* documents: newest first, documents with equal startTime in any order
SortedFinds ==
    LET ended == {i \in DOMAIN Session : ~Session[i].active}
        n     == Cardinality(ended)
    IN  {f \in [1..n -> ended] :
           /\ \A j, k \in 1..n : j # k => f[j] # f[k]
           /\ \A j, k \in 1..n : j < k => Session[f[j]].startTime >= Session[f[k]].startTime}

\* mutant: the map is keyed by att.studentId, so a lookup by code finds nothing
AttendanceMapGetByStudent(attendances, code) ==
    LET hits == {i \in DOMAIN attendances : attendances[i].studentId = code} IN
    IF hits = {} THEN <<>>
    ELSE <<attendances[CHOOSE i \in hits : \A j \in hits : j <= i]>>

\* attendanceMap.get(code) after attendances.forEach(att => attendanceMap.set(att.sessionId, att)):
\* a later document replaces an earlier one with the same code (<<>>: undefined)
AttendanceMapGet(attendances, code) ==
    LET hits == {i \in DOMAIN attendances : attendances[i].sessionId = code} IN
    IF hits = {} THEN <<>>
    ELSE <<attendances[CHOOSE i \in hits : \A j \in hits : j <= i]>>

\* mutant: the entry is always dated with the session's startTime
HistoryEntryStartDate(session, attendances) ==
    [sessionId |-> session.sessionId,
     subject   |-> session.subject,
     date      |-> session.startTime,
     status    |-> IF \E i \in DOMAIN attendances : attendances[i].sessionId = session.sessionId
                   THEN "Present" ELSE "Absent",
     location  |-> session.location]

\* the entry sessions.map builds for one session
HistoryEntry(session, attendances) ==
    LET attendance == AttendanceMapGet(attendances, session.sessionId) IN
    [sessionId |-> session.sessionId,
     subject   |-> session.subject,
     date      |-> IF attendance # <<>> THEN attendance[1].timestamp ELSE session.startTime,
     status    |-> IF attendance # <<>> THEN "Present" ELSE "Absent",
     location  |-> session.location]

\* mutant: the find without studentId
FindAllStudents(student) == Attendance

\* Attendance.find({studentId}): the student's documents, in the order stored
FindByStudent(student) == SelectSeq(Attendance, LAMBDA a : a.studentId = student)

\* mutant: the handler subscribes no one, but clears the rooms of every connection
AttendanceHistoryLeaveAll(u) ==
    /\ Admit
    /\ res' = Response("history", u, "", 200, "")
    /\ sockets' = [k \in Sockets |-> [sockets[k] EXCEPT !.rooms = {}]]
    /\ UNCHANGED <<Session, Attendance, emitted, now, pending>>

\* the handler: both finds read the store as it is when the request is served, and
\* the history built from them is sent with status 200
AttendanceHistory(u) ==
    /\ Admit
    /\ \E f \in SortedFinds :
         LET sessions    == [j \in DOMAIN f |-> Session[f[j]]]
             attendances == FindByStudent(u)
         IN  res' = [Response("history", u, "", 200, "")
                       EXCEPT !.history = [j \in DOMAIN sessions |->
                                             HistoryEntry(sessions[j], attendances)]]
    /\ UNCHANGED <<Session, Attendance, emitted, now, pending, sockets>>

\* ------------------------------------- GET /api/teacher/session-attendance/:sessionId
\* Attendance.find({sessionId}): the documents of the code, in the order stored
FindBySession(code) == SelectSeq(Attendance, LAMBDA a : a.sessionId = code)

\* the handler: one find, sent with status 200
SessionAttendance(u, code) ==
    /\ Admit
    /\ res' = [Response("list", u, code, 200, "") EXCEPT !.attendance = FindBySession(code)]
    /\ UNCHANGED <<Session, Attendance, emitted, now, pending, sockets>>

\* ------------------------------------------------- catch (e) { res.status(400).send(e) }
\* a store call rejects (the store is down or refuses the document) and has written
\* nothing, or the emit throws: the handler's catch answers 400 with the error as body
StartSessionFails(u, subject, loc) ==
    /\ Admit
    /\ res' = Response("start", u, "", 400, "")
    /\ UNCHANGED <<Session, Attendance, emitted, now, pending, sockets>>

EndSessionFails(u, code) ==
    /\ Admit
    /\ res' = Response("end", u, code, 400, "")
    /\ UNCHANGED <<Session, Attendance, emitted, now, pending, sockets>>

MarkFindSessionFails(u, code, loc) ==
    /\ Admit
    /\ res' = Response("mark", u, code, 400, "")
    /\ UNCHANGED <<Session, Attendance, emitted, now, pending, sockets>>

\* Attendance.findOne (at pc findAlready) or attendance.save (at pc save) rejects
MarkStoreFails(h) ==
    /\ h.op = "mark"
    /\ res' = Response("mark", h.user, h.code, 400, "")
    /\ pending' = pending (-) SetToBag({h})
    /\ UNCHANGED <<Session, Attendance, emitted, now, sockets>>

\* attendance.save() has stored the document and io.to(sessionId).emit throws, having
\* sent the event to some of the room's connections
MarkEmitFails(h) ==
    /\ h.op = "mark" /\ h.pc = "save"
    /\ Attendance' = SaveAttendance(h.attendance[1])
    /\ \E sent \in SUBSET BagToSet(Broadcast(h.code)) :
         emitted' = Emit(h.code, h.attendance[1], SetToBag(sent))
    /\ res' = Response("mark", h.user, h.code, 400, "")
    /\ pending' = pending (-) SetToBag({h})
    /\ UNCHANGED <<Session, now, sockets>>

\* ------------------------------------------------------------- io.on('connection')
\* a client opens a connection: the server registers the join_session listener on it
Connect(k) ==
    /\ sockets[k].state = "new"
    /\ sockets' = [sockets EXCEPT ![k].state = "open"]
    /\ UNCHANGED <<Session, Attendance, emitted, now, pending, res>>

\* socket.join(sessionId): rooms is a Set, joining a room twice changes nothing
Join(rooms, sessionId) == rooms \cup {sessionId}

\* socket.on('join_session', (sessionId) => socket.join(sessionId)): any connection,
\* any value of sessionId
JoinSession(k, sessionId) ==
    /\ sockets[k].state = "open"
    /\ sockets' = [sockets EXCEPT ![k].rooms = Join(@, sessionId)]
    /\ UNCHANGED <<Session, Attendance, emitted, now, pending, res>>

\* the connection closes: the socket leaves every room
Disconnect(k) ==
    /\ sockets[k].state = "open"
    /\ sockets' = [sockets EXCEPT ![k] = [state |-> "closed", rooms |-> {}]]
    /\ UNCHANGED <<Session, Attendance, emitted, now, pending, res>>

\* ------------------------------------------------------ app.METHOD(path, auth, handler)
\* catch { res.status(401).send({ error: 'Please authenticate.' }) }
AuthRejects(op) ==
    /\ Admit
    /\ res' = Response(op, "", "", 401, "Please authenticate.")
    /\ UNCHANGED <<Session, Attendance, emitted, now, pending, sockets>>

\* a request of a protected route: auth answers 401, or calls next() and the handler
\* runs with req.user
PostStartSession(token, subject, loc) ==
    IF auth(token) = {} THEN AuthRejects("start")
    ELSE \E u \in auth(token) : StartSession(u, subject, loc)

PostEndSession(token, code) ==
    IF auth(token) = {} THEN AuthRejects("end")
    ELSE \E u \in auth(token) : EndSession(u, code)

PostMarkAttendance(token, code, loc) ==
    IF auth(token) = {} THEN AuthRejects("mark")
    ELSE \E u \in auth(token) : MarkFindSession(u, code, loc)

GetAttendanceHistory(token) ==
    IF auth(token) = {} THEN AuthRejects("history")
    ELSE \E u \in auth(token) : AttendanceHistory(u)

GetSessionAttendance(token, code) ==
    IF auth(token) = {} THEN AuthRejects("list")
    ELSE \E u \in auth(token) : SessionAttendance(u, code)

\* ---------------------------------------------------------- specification
\* a request of a user arrives (auth has resolved req.user) and its handler runs to
\* its first await, or to its response
Arrive ==
    \/ \E u \in Users, s \in Subjects, l \in Locs : StartSession(u, s, l)
    \/ \E u \in Users, c \in Codes : EndSession(u, c)
    \/ \E u \in Users, c \in Codes, l \in Locs : MarkFindSession(u, c, l)
    \/ \E u \in Users : AttendanceHistory(u)

\* a suspended handler resumes and runs to its next await, or to its response
Resume ==
    \/ \E h \in BagToSet(pending) : MarkFindAlready(h)
    \/ \E h \in BagToSet(pending) : MarkSave(h)

Next == Tick \/ Arrive \/ Resume

\* requests arrive and are answered in any interleaving
Spec == Init /\ [][Next]_vars

\* every request is answered before the next one arrives
NextSeq == Tick \/ (pending = EmptyBag /\ Arrive) \/ Resume

SpecSeq == Init /\ [][NextSeq]_vars

\* the teacher's listing is requested too
NextListing == Next \/ \E u \in Users, c \in Codes : SessionAttendance(u, c)

\* requests of all five routes arrive and are answered in any interleaving
SpecListing == Init /\ [][NextListing]_vars

\* a request arrives with any token, or with none
Request ==
    \/ \E t \in Tokens, s \in Subjects, l \in Locs : PostStartSession(t, s, l)
    \/ \E t \in Tokens, c \in Codes : PostEndSession(t, c)
    \/ \E t \in Tokens, c \in Codes, l \in Locs : PostMarkAttendance(t, c, l)
    \/ \E t \in Tokens : GetAttendanceHistory(t)
    \/ \E t \in Tokens, c \in Codes : GetSessionAttendance(t, c)
    \/ \E t \in Tokens, s \in Subjects, l \in Locs :
         \E u \in auth(t) : StartSessionFails(u, s, l)

NextAuth == (pending = EmptyBag /\ Request) \/ Resume

\* requests with any token run one at a time, at one instant; the save of a
\* start-session may fail
SpecAuth == Init /\ [][NextAuth]_vars

\* a request arrives and its first store call rejects
ArriveFails ==
    \/ \E u \in Users, s \in Subjects, l \in Locs : StartSessionFails(u, s, l)
    \/ \E u \in Users, c \in Codes : EndSessionFails(u, c)
    \/ \E u \in Users, c \in Codes, l \in Locs : MarkFindSessionFails(u, c, l)

\* a suspended handler resumes into its catch
ResumeFails ==
    \/ \E h \in BagToSet(pending) : MarkStoreFails(h)
    \/ \E h \in BagToSet(pending) : MarkEmitFails(h)

NextFaulty == NextSeq \/ (pending = EmptyBag /\ ArriveFails) \/ ResumeFails

\* requests run one at a time, and any store call or emit of a request may fail
SpecFaulty == Init /\ [][NextFaulty]_vars

\* a connection opens, emits join_session or closes
Realtime ==
    \/ \E k \in Sockets : Connect(k)
    \/ \E k \in Sockets, c \in Codes : JoinSession(k, c)
    \/ \E k \in Sockets : Disconnect(k)

\* the requests SpecRealtime follows: those that emit, what they need, and the read
ArriveRealtime ==
    \/ \E u \in Users, s \in Subjects, l \in Locs : StartSession(u, s, l)
    \/ \E u \in Users, c \in Codes, l \in Locs : MarkFindSession(u, c, l)
    \/ \E u \in Users : AttendanceHistory(u)

NextRealtime == Realtime \/ (pending = EmptyBag /\ ArriveRealtime) \/ Resume

\* connections come and go at any moment while requests are answered one at a time
SpecRealtime == Init /\ [][NextRealtime]_vars

\* ------------------------------------------------------------------ claims
\* the Attendance documents of (code, student)
RecordsOf(code, student) ==
    {k \in DOMAIN Attendance : /\ Attendance[k].sessionId = code
                               /\ Attendance[k].studentId = student}

\* the sessions that carry code
SessionsOf(code) == {i \in DOMAIN Session : Session[i].sessionId = code}

\* the sessions with active = false
Ended == {i \in DOMAIN Session : ~Session[i].active}

\* C1: in every reachable state, under any interleaving of mark-attendance requests,
\* the store holds at most one Attendance document per (session code, student).
C1_OneRecordPerPair ==
    \A c \in Codes, u \in Users : Cardinality(RecordsOf(c, u)) <= 1

\* C6: in every reachable state, for every session code at most one session with that
\* code has active = true.
C6_OneActivePerCode ==
    \A c \in Codes : Cardinality({i \in SessionsOf(c) : Session[i].active}) <= 1

\* C2: when one mark-attendance of student u for code c has been answered 201 and the
\* very next request is a second mark-attendance of u for c, run after the first, the
\* second is let past the session lookup, is answered 400 'Already marked', inserts
\* nothing, and exactly one document of (c, u) is stored.
C2_SecondMarkAlreadyMarked ==
    [][\A c \in Codes, u \in Users :
         res = Response("mark", u, c, 201, "") =>
           /\ \A l \in Locs : MarkFindSession(u, c, l) => res' = res
           /\ \A h \in BagToSet(pending) :
                (h.user = u /\ h.code = c /\ (MarkFindAlready(h) \/ MarkSave(h))) =>
                  /\ res' = Response("mark", u, c, 400, "Already marked")
                  /\ Attendance' = Attendance
                  /\ Cardinality(RecordsOf(c, u)) = 1]_vars

\* C2's case: the second call has been answered 400 and one document is stored
C2_Witness ==
    \E c \in Codes, u \in Users :
      /\ res = Response("mark", u, c, 400, "Already marked")
      /\ Cardinality(RecordsOf(c, u)) = 1

\* no two sessions have carried the same code at the same time: of two sessions with
\* one code, the earlier had ended before the later started
NeverShared ==
    \A i, j \in DOMAIN Session :
      (i < j /\ Session[i].sessionId = Session[j].sessionId) =>
        (~Session[i].active /\ Session[i].endTime < Session[j].startTime)

\* C3 as stated: a mark-attendance naming the code of a session whose active flag is
\* false, or a code no session has, is answered 404 'Session not active' and inserts
\* nothing, whatever other sessions exist (here: among those that never shared a code
\* while active).
C3_InactiveSessionRejected ==
    [][\A c \in Codes, u \in Users, l \in Locs :
         (MarkFindSession(u, c, l) /\ NeverShared
            /\ (SessionsOf(c) = {} \/ \E i \in SessionsOf(c) : ~Session[i].active)) =>
           /\ res' = Response("mark", u, c, 404, "Session not active")
           /\ pending' = pending
           /\ Attendance' = Attendance]_vars

\* C3 amended: a mark-attendance naming a code that no session with active = true
\* carries is answered 404 'Session not active' and inserts nothing.
C3_NoActiveSessionRejected ==
    [][\A c \in Codes, u \in Users, l \in Locs :
         (MarkFindSession(u, c, l) /\ \A i \in SessionsOf(c) : ~Session[i].active) =>
           /\ res' = Response("mark", u, c, 404, "Session not active")
           /\ pending' = pending
           /\ Attendance' = Attendance]_vars

\* C3's case: a student who already has a document for the code of an ended session
\* was answered 404
C3_Witness ==
    \E c \in Codes, u \in Users :
      /\ res = Response("mark", u, c, 404, "Session not active")
      /\ SessionsOf(c) # {}
      /\ \A i \in SessionsOf(c) : ~Session[i].active
      /\ RecordsOf(c, u) # {}

\* C4: when end-session of teacher u for code c has been answered 200 and the very next
\* request is a second end-session of u for c, the second is answered 404 'Session not
\* found' and leaves every session, so the endTime written by the first, as it was.
C4_SecondEndNotFound ==
    [][\A c \in Codes, u \in Users :
         (res = Response("end", u, c, 200, "") /\ EndSession(u, c)) =>
           /\ res' = Response("end", u, c, 404, "Session not found")
           /\ Session' = Session]_vars

\* C5: a session is created active with no endTime; an ended session stays ended with
\* its endTime; no step deletes a session or changes its code, owner, subject,
\* location or startTime; a session changes only by going from active to ended.
C5_ActiveThenEnded ==
    [][/\ Len(Session') >= Len(Session)
       /\ \A i \in DOMAIN Session :
            /\ Session'[i].sessionId = Session[i].sessionId
            /\ Session'[i].teacherId = Session[i].teacherId
            /\ Session'[i].subject = Session[i].subject
            /\ Session'[i].location = Session[i].location
            /\ Session'[i].startTime = Session[i].startTime
            /\ ~Session[i].active =>
                 (~Session'[i].active /\ Session'[i].endTime = Session[i].endTime)
            /\ (Session[i].active /\ Session'[i].active) =>
                 Session'[i].endTime = Session[i].endTime
       /\ \A i \in DOMAIN Session' \ DOMAIN Session :
            Session'[i].active /\ Session'[i].endTime = NoTime]_vars

\* C5's case: a session ended at an earlier time, and a later end-session for it by its
\* owner was answered 404
C5_Witness ==
    \E i \in DOMAIN Session :
      /\ ~Session[i].active
      /\ Session[i].endTime < now
      /\ res = Response("end", Session[i].teacherId, Session[i].sessionId, 404,
                        "Session not found")

\* C7: an end-session of caller u for code c changes a session only if it carries c, is
\* owned by u and is active; when no session is like that the call is answered 404
\* 'Session not found' and every session stays as it was.
C7_OnlyOwnerEnds ==
    [][\A c \in Codes, u \in Users :
         EndSession(u, c) =>
           /\ \A i \in DOMAIN Session :
                Session'[i] # Session[i] =>
                  /\ Session[i].sessionId = c
                  /\ Session[i].teacherId = u
                  /\ Session[i].active
           /\ (~ \E i \in SessionsOf(c) : Session[i].teacherId = u /\ Session[i].active) =>
                /\ res' = Response("end", u, c, 404, "Session not found")
                /\ Session' = Session]_vars

\* C7's case: a caller who does not own the active session of a code was answered 404
C7_Witness ==
    \E c \in Codes, u \in Users :
      /\ res = Response("end", u, c, 404, "Session not found")
      /\ \E i \in SessionsOf(c) : Session[i].active /\ Session[i].teacherId # u

\* the ways to pair the entries of a history with the ended sessions, one entry per
\* session, each entry carrying its session's code, subject and location
Pairings(hist) ==
    {f \in [DOMAIN hist -> Ended] :
       /\ \A j, k \in DOMAIN hist : j # k => f[j] # f[k]
       /\ \A i \in Ended : \E j \in DOMAIN hist : f[j] = i
       /\ \A j \in DOMAIN hist :
            /\ hist[j].sessionId = Session[f[j]].sessionId
            /\ hist[j].subject = Session[f[j]].subject
            /\ hist[j].location = Session[f[j]].location}

\* C8: attendance-history of student u returns exactly one entry per session with
\* active = false and none for a session with active = true; an entry is Present when
\* a document of (its code, u) is stored and Absent otherwise, so a student with no
\* documents gets only Absent entries.
C8_HistoryOfEndedSessions ==
    [][\A u \in Users :
         AttendanceHistory(u) =>
           /\ Pairings(res'.history) # {}
           /\ \A j \in DOMAIN res'.history :
                res'.history[j].status =
                  IF RecordsOf(res'.history[j].sessionId, u) # {} THEN "Present" ELSE "Absent"]_vars

\* C8's case: two ended sessions, a student without documents who got two Absent
\* entries, while another student has a document for one of the two codes
C8_Witness ==
    /\ res.op = "history" /\ Len(res.history) = 2 /\ Cardinality(Ended) = 2
    /\ \A j \in DOMAIN res.history : res.history[j].status = "Absent"
    /\ \A k \in DOMAIN Attendance : Attendance[k].studentId # res.user
    /\ \E k \in DOMAIN Attendance : Attendance[k].sessionId = res.history[1].sessionId

\* C9: in an attendance-history of student u the entries pair with the ended sessions;
\* a Present entry is dated with the timestamp of a document of (its code, u) and an
\* Absent entry with its session's startTime.
C9_HistoryDates ==
    [][\A u \in Users :
         AttendanceHistory(u) =>
           \E f \in Pairings(res'.history) :
             \A j \in DOMAIN res'.history :
               IF res'.history[j].status = "Present"
               THEN \E k \in RecordsOf(res'.history[j].sessionId, u) :
                      Attendance[k].timestamp = res'.history[j].date
               ELSE /\ res'.history[j].status = "Absent"
                    /\ res'.history[j].date = Session[f[j]].startTime]_vars

\* C9's case: a history with a Present entry dated later than its session started and
\* an Absent entry
C9_Witness ==
    /\ res.op = "history"
    /\ \E j, k \in DOMAIN res.history :
         /\ res.history[j].status = "Present"
         /\ res.history[k].status = "Absent"
         /\ \A i \in SessionsOf(res.history[j].sessionId) :
              Session[i].startTime < res.history[j].date

\* C10: once a document of (c, u) is stored and a session carrying c is ended, every
\* attendance-history of u has a Present entry for c; and a mark-attendance of u for c
\* that finds a session of c active and then a document of (c, u) stored is answered
\* 400 'Already marked' and inserts nothing.
C10_PresentAfterEnd ==
    [][/\ \A u \in Users :
            AttendanceHistory(u) =>
              \A c \in Codes :
                (RecordsOf(c, u) # {} /\ \E i \in SessionsOf(c) : ~Session[i].active) =>
                  \E j \in DOMAIN res'.history :
                    /\ res'.history[j].sessionId = c
                    /\ res'.history[j].status = "Present"
       /\ \A u \in Users, c \in Codes, l \in Locs :
            (MarkFindSession(u, c, l) /\ \E i \in SessionsOf(c) : Session[i].active) =>
              (res' = res /\ BagCardinality(pending') = BagCardinality(pending) + 1)
       /\ \A h \in BagToSet(pending) :
            (MarkFindAlready(h) /\ RecordsOf(h.code, h.user) # {}) =>
              /\ res' = Response("mark", h.user, h.code, 400, "Already marked")
              /\ Attendance' = Attendance
              /\ BagCardinality(pending') = BagCardinality(pending) - 1]_vars

\* C10's case: the student marked, a second mark met 'Already marked' or not, the
\* session was ended, and the history fetched afterwards shows it Present
C10_Witness ==
    /\ res.op = "history"
    /\ \E j \in DOMAIN res.history :
         /\ res.history[j].status = "Present"
         /\ \E k \in RecordsOf(res.history[j].sessionId, res.user) :
              \E i \in SessionsOf(res.history[j].sessionId) :
                /\ ~Session[i].active
                /\ Session[i].startTime <= Attendance[k].timestamp
                /\ Attendance[k].timestamp <= Session[i].endTime
\* C11: no step removes or changes a stored Attendance document, a step stores at most
\* one new document, and a mark-attendance answered 201 stores exactly one new document,
\* of the caller and the code of the request; a step that answers a start-session, an
\* end-session, an attendance-history, a session-attendance or a mark-attendance that
\* failed with 'Session not active' or 'Already marked' (the step after which that
\* response is the latest one) leaves the collection as it is.
C11_AppendOnly ==
    [][/\ Len(Attendance) <= Len(Attendance') /\ Len(Attendance') <= Len(Attendance) + 1
       /\ \A k \in DOMAIN Attendance : Attendance'[k] = Attendance[k]
       /\ \A h \in BagToSet(pending) :
            (MarkSave(h) /\ res'.status = 201) =>
              /\ Len(Attendance') = Len(Attendance) + 1
              /\ Attendance'[Len(Attendance')].sessionId = h.code
              /\ Attendance'[Len(Attendance')].studentId = h.user
       /\ (\/ res'.op \in {"start", "end", "history", "list"}
           \/ res'.op = "mark" /\ res'.error \in {"Session not active", "Already marked"})
          => Attendance' = Attendance]_vars

\* C11's case: a document stored at an earlier time is still listed, with its fields,
\* after a second document was stored and its session was ended
C11_Witness ==
    /\ Len(Attendance) = 2
    /\ Attendance[1].timestamp < now
    /\ \E i \in SessionsOf(Attendance[1].sessionId) : ~Session[i].active
    /\ res.op = "list" /\ res.status = 200
    /\ Len(res.attendance) >= 1 /\ res.attendance[1] = Attendance[1]

\* C12: an attendance-history request, of any caller in any state of the store, leaves
\* the Session and Attendance collections and the rooms every connection has joined as
\* they are, and emits no event.
C12_HistoryReadsOnly ==
    [][\A u \in Users :
         AttendanceHistory(u) =>
           /\ Session' = Session
           /\ Attendance' = Attendance
           /\ \A k \in Sockets : sockets'[k] = sockets[k]
           /\ emitted' = emitted]_vars

\* C12's case: a history was answered to a student with a stored document, while a
\* connection is subscribed to the document's code and its event has been delivered
C12_Witness ==
    /\ res.op = "history" /\ res.status = 200
    /\ \E i \in DOMAIN Attendance, j \in DOMAIN emitted, k \in Sockets :
         /\ Attendance[i].studentId = res.user
         /\ emitted[j].payload = Attendance[i]
         /\ Attendance[i].sessionId \in sockets[k].rooms
         /\ CopiesIn(k, emitted[j].to) = 1

\* C13: a step that stores an Attendance document appends exactly one event to the
\* events emitted (the calls of io.to(room).emit, a call that throws included): an
\* attendance_marked event whose payload is that document and whose room is the
\* document's session code; a step that stores no document emits nothing, so no event
\* precedes its document in the store and a mark-attendance answered
\* 'Session not active' or 'Already marked' emits nothing.
C13_OneEventPerRecord ==
    [][/\ Len(Attendance') > Len(Attendance) =>
            LET r == Attendance'[Len(Attendance')] IN
            /\ Len(emitted') = Len(emitted) + 1
            /\ \A j \in DOMAIN emitted : emitted'[j] = emitted[j]
            /\ emitted'[Len(emitted')].event = "attendance_marked"
            /\ emitted'[Len(emitted')].payload = r
            /\ emitted'[Len(emitted')].room = r.sessionId
       /\ Len(Attendance') <= Len(Attendance) => emitted' = emitted
       /\ \A j \in DOMAIN emitted' : \E i \in DOMAIN Attendance' :
            Attendance'[i] = emitted'[j].payload
       /\ (res'.op = "mark" /\ res'.error \in {"Session not active", "Already marked"})
            => emitted' = emitted]_vars

\* C13's case: a document was stored and its event emitted, and a later mark-attendance
\* of the same student for the same code was answered 'Already marked', the one event
\* staying the only one
C13_Witness ==
    /\ Len(Attendance) = 1 /\ Len(emitted) = 1
    /\ emitted[1].payload = Attendance[1] /\ emitted[1].room = Attendance[1].sessionId
    /\ Attendance[1].timestamp < now
    /\ res = Response("mark", Attendance[1].studentId, Attendance[1].sessionId, 400,
                      "Already marked")

\* C14: with requests run one at a time, a step after which the latest response is an
\* error response (a status other than 200 and 201) of mark-attendance, start-session
\* or end-session leaves the Session and Attendance collections as they were; the steps
\* of a request before its response write nothing, so this is the store the request
\* found when it started.
C14_NoPartialSuccess ==
    [][(res'.op \in {"mark", "start", "end"} /\ res'.status \notin {200, 201}) =>
         (Session' = Session /\ Attendance' = Attendance)]_vars

\* the step answers a request of route op with 401 and leaves the store, the events,
\* the connections and the handlers in flight as they are (no handler has begun)
Rejected(op) ==
    /\ res' = Response(op, "", "", 401, "Please authenticate.")
    /\ Session' = Session /\ Attendance' = Attendance /\ emitted' = emitted
    /\ sockets' = sockets /\ pending' = pending

\* the step adds one session, active and without endTime, owned by u, and answers 201
Created(u) ==
    /\ Len(Session') = Len(Session) + 1
    /\ \A i \in DOMAIN Session : Session'[i] = Session[i]
    /\ Session'[Len(Session')].teacherId = u
    /\ Session'[Len(Session')].active /\ Session'[Len(Session')].endTime = NoTime
    /\ res'.op = "start" /\ res'.status = 201

\* a request of any protected route whose token is missing, refused or names no user
\* is answered 401 and changes nothing
UnauthenticatedRejected ==
    \A t \in Tokens :
      (~t.present \/ ~t.valid \/ t._id \notin Users) =>
        /\ \A s \in Subjects, l \in Locs : PostStartSession(t, s, l) => Rejected("start")
        /\ \A c \in Codes : PostEndSession(t, c) => Rejected("end")
        /\ \A c \in Codes, l \in Locs : PostMarkAttendance(t, c, l) => Rejected("mark")
        /\ GetAttendanceHistory(t) => Rejected("history")
        /\ \A c \in Codes : GetSessionAttendance(t, c) => Rejected("list")

\* C15 as stated: a request of a protected route with a token that is missing,
\* refused or names no user is answered 401 and changes nothing, and every
\* start-session request of a user, whether its save succeeds or fails, adds a new
\* active session owned by that user.
C15_UnauthenticatedOrCreated ==
    [][/\ UnauthenticatedRejected
       /\ \A u \in Users, s \in Subjects, l \in Locs :
            (StartSession(u, s, l) \/ StartSessionFails(u, s, l)) => Created(u)]_vars

\* C15 amended: a request of a protected route with a token that is missing, refused
\* or names no user is answered 401 and changes nothing; a start-session request of a
\* user adds a new active session owned by that user, unless session.save() fails:
\* then it is answered 400 and no session is added or changed.
C15_UnauthenticatedOrCreatedUnlessSaveFails ==
    [][/\ UnauthenticatedRejected
       /\ \A t \in Tokens, s \in Subjects, l \in Locs :
            (t.present /\ t.valid /\ t._id \in Users /\ PostStartSession(t, s, l))
              => Created(t._id)
       /\ \A u \in Users, s \in Subjects, l \in Locs :
            StartSessionFails(u, s, l) =>
              (res' = Response("start", u, "", 400, "") /\ Session' = Session)]_vars

\* C15's case: with an active session and no document stored, a mark-attendance whose
\* token names no user was answered 401
C15_Witness ==
    /\ res = Response("mark", "", "", 401, "Please authenticate.")
    /\ \E i \in DOMAIN Session : Session[i].active
    /\ Attendance = <<>>

\* C16: the step that emits an event for code c sends it at most once to a connection,
\* and only to connections that are open and have joined c at that moment; an event
\* once emitted is sent to no one later, so a connection that joins c afterwards does
\* not get it; every open connection can join every code; and a connection leaves a
\* room it has joined only by closing.
C16_DeliveredToSubscribers ==
    [][/\ Len(emitted') > Len(emitted) =>
            LET e == emitted'[Len(emitted')] IN
            \A k \in Sockets :
              /\ CopiesIn(k, e.to) <= 1
              /\ CopiesIn(k, e.to) = 1 =>
                   (sockets[k].state = "open" /\ e.room \in sockets[k].rooms)
       /\ \A j \in DOMAIN emitted : emitted'[j] = emitted[j]
       /\ \A k \in Sockets, c \in Codes :
            /\ sockets[k].state = "open" => ENABLED JoinSession(k, c)
            /\ JoinSession(k, c) => c \in sockets'[k].rooms
            /\ (c \in sockets[k].rooms /\ c \notin sockets'[k].rooms)
                 => sockets'[k].state = "closed"]_vars

\* C16's case: an event was sent to a connection that had joined its code and not to
\* another connection, which joined the code only afterwards; the first has closed
C16_Witness ==
    \E j \in DOMAIN emitted, k1, k2 \in Sockets :
      /\ CopiesIn(k1, emitted[j].to) = 1
      /\ CopiesIn(k2, emitted[j].to) = 0
      /\ sockets[k1].state = "closed"
      /\ sockets[k2].state = "open" /\ emitted[j].room \in sockets[k2].rooms

\* C17: in every reachable state every session is owned by a user with role teacher
\* and every Attendance document belongs to a user with role student (so start-session
\* and end-session took effect only for teachers, mark-attendance only for students).
C17_RolesRespected ==
    /\ \A i \in DOMAIN Session : role[Session[i].teacherId] = "teacher"
    /\ \A k \in DOMAIN Attendance : role[Attendance[k].studentId] = "student"

\* C18: under any interleaving, a step that stores an Attendance document for a code
\* is taken while a session with that code is active.
C18_InsertedWhileActive ==
    [][Len(Attendance') > Len(Attendance) =>
         \E i \in SessionsOf(Attendance'[Len(Attendance')].sessionId) :
           Session[i].active]_vars

\* C19: of the end-session requests of owner u for code c that arrive while one
\* session of u with code c is active, in any interleaving, the first to be served
\* ends that session, writing its endTime, and is answered 200; from then on the
\* session and its endTime never change, and while no session of u with code c is
\* active such a request is answered 404 'Session not found' and changes nothing. A
\* request answered 200 has ended exactly one session.
C19_EndedOnce ==
    [][/\ \A i \in DOMAIN Session : ~Session[i].active => Session'[i] = Session[i]
       /\ \A u \in Users, c \in Codes :
            EndSession(u, c) =>
              LET mine == {i \in SessionsOf(c) : Session[i].teacherId = u /\ Session[i].active}
                  hit  == {i \in DOMAIN Session : Session'[i] # Session[i]}
              IN  /\ mine = {} =>
                       (res' = Response("end", u, c, 404, "Session not found") /\ hit = {})
                  /\ mine # {} =>
                       /\ res' = Response("end", u, c, 200, "")
                       /\ Cardinality(hit) = 1 /\ hit \subseteq mine
                       /\ \A i \in hit : ~Session'[i].active /\ Session'[i].endTime = now
                  /\ Cardinality(mine) = 1 =>
                       ~ \E i \in DOMAIN Session' :
                           /\ Session'[i].sessionId = c /\ Session'[i].teacherId = u
                           /\ Session'[i].active]_vars

\* C19's case: the only session with its code was ended, and a second end-session of
\* its owner, served at the same instant, was answered 404
C19_Witness ==
    \E i \in DOMAIN Session :
      /\ ~Session[i].active
      /\ Session[i].endTime = now
      /\ Cardinality(SessionsOf(Session[i].sessionId)) = 1
      /\ res = Response("end", Session[i].teacherId, Session[i].sessionId, 404,
                        "Session not found")

\* C20: with requests run one at a time and no two sessions carrying one code at the
\* same time, when mark-attendance of student u has found the active session S of its
\* code and no Attendance document of u with that code
\* was stored since S started, the existence lookup does not reject the request: it
\* stays in flight and goes on to save its document (also when u has a document from
\* an earlier session that carried the same code).
C20_CanCheckIn ==
    [][\A h \in BagToSet(pending) :
         (/\ MarkFindAlready(h)
          /\ NeverShared
          /\ \A k \in RecordsOf(h.code, h.user) :
               Attendance[k].timestamp < h.sessions[1].startTime)
           => BagCardinality(pending') = BagCardinality(pending)]_vars

=============================================================================
